---------------------------- MODULE Spec2Model ----------------------------
(***************************************************************************)
(* A model of AppImageLauncher's shared desktop-integration routines       *)
(* (src/src/shared/shared.cpp): permission helpers, collision resolution,  *)
(* desktop-file installation, integration, clean-up and the two staleness  *)
(* checks.  Strings are sequences of one-character strings, so that        *)
(* prefix tests, splitting, regular-expression matching and number         *)
(* parsing are computed the way the code computes them.                    *)
(***************************************************************************)
EXTENDS Integers, Sequences, FiniteSets, TLC

VARIABLES
    perm,      \* the file makeExecutable / makeNonExecutable is called on
    plast,     \* the last permission call: operation, result, mode before
    files,     \* the bundle files on disk: path -> bundle (or none)
    desktop,   \* the desktop entry files: id -> entry (or none)
    last,      \* the last integration call: operation, path, result
    tenv,      \* what the staleness checks read: own binary, desktop file, clocks
    tlast,     \* the last staleness check: operation, systemctl's output, result
    config,    \* the text of appimagelauncher.cfg, if the file exists
    wlast      \* the last call of a configuration or environment helper

permVars == <<perm, plast>>
fsVars == <<files, desktop, last>>
timeVars == <<tenv, tlast>>
cfgVars == <<config, wlast>>
vars == <<perm, plast, files, desktop, last, tenv, tlast, config, wlast>>

(***************************************************************************)
(* Optional values: <<>> is "absent" (a null pointer, a missing key, a     *)
(* missing file), <<v>> is "present with value v".                         *)
(***************************************************************************)
None == <<>>
Some(v) == <<v>>
Get(o) == o[1]

(***************************************************************************)
(* Text                                                                    *)
(***************************************************************************)
Digits == <<"0", "1", "2", "3", "4", "5", "6", "7", "8", "9">>

IsDigit(c) == \E i \in 1 .. Len(Digits) : Digits[i] = c

DigitVal(c) == (CHOOSE i \in 1 .. Len(Digits) : Digits[i] = c) - 1

\* QString::isSpace on the characters the model uses
IsSpace(c) == c \in {" ", "\n", "\t"}

\* QString::number(n)
RECURSIVE NumToStr(_)
NumToStr(n) ==
    IF n < 10 THEN <<Digits[n + 1]>>
    ELSE NumToStr(n \div 10) \o <<Digits[(n % 10) + 1]>>

\* the value of a non-empty string of digits
RECURSIVE DigitsToNat(_)
DigitsToNat(s) ==
    IF s = <<>> THEN 0
    ELSE 10 * DigitsToNat(SubSeq(s, 1, Len(s) - 1)) + DigitVal(s[Len(s)])

AllDigits(s) == s # <<>> /\ \A i \in 1 .. Len(s) : IsDigit(s[i])

\* QString::trimmed(): whitespace removed at both ends
RECURSIVE Trimmed(_)
Trimmed(s) ==
    IF s = <<>> THEN s
    ELSE IF IsSpace(s[1]) THEN Trimmed(Tail(s))
    ELSE IF IsSpace(s[Len(s)]) THEN Trimmed(SubSeq(s, 1, Len(s) - 1))
    ELSE s

\* QString::startsWith
StartsWith(s, p) == Len(p) <= Len(s) /\ SubSeq(s, 1, Len(p)) = p

\* QString::toUInt(): 0 when the text is not a number
ToUInt(s) == IF AllDigits(Trimmed(s)) THEN DigitsToNat(Trimmed(s)) ELSE 0

\* QString::split(" ").first(): the text before the first space
RECURSIVE FirstWord(_)
FirstWord(s) ==
    IF s = <<>> \/ s[1] = " " THEN <<>>
    ELSE <<s[1]>> \o FirstWord(Tail(s))

\* QString::contains
Contains(s, t) == \E i \in 1 .. (Len(s) - Len(t) + 1) : SubSeq(s, i, i + Len(t) - 1) = t

\* QRegularExpression(R"(^.*\(([0-9]+)\)$)").match(s): the text must end in
\* "(", one or more digits, ")".  captured(0) is the whole match, which
\* the anchors make the whole text; captured(1) is the digits.
RegexMatch(s) ==
    LET opens == {i \in 1 .. Len(s) : s[i] = "("}
        open == CHOOSE i \in opens : \A j \in opens : j <= i
        ok == /\ opens # {}
              /\ s[Len(s)] = ")"
              /\ AllDigits(SubSeq(s, open + 1, Len(s) - 1))
    IN  [hasMatch |-> ok,
         captured0 |-> IF ok THEN s ELSE <<>>,
         captured1 |-> IF ok THEN SubSeq(s, open + 1, Len(s) - 1) ELSE <<>>]

(***************************************************************************)
(* Mode bits                                                               *)
(***************************************************************************)
\* the execute bits the code names in octal: 0100, 0010, 0001 and 0111
S_IXUSR == 64
S_IXGRP == 8
S_IXOTH == 1
\* st_mode of a regular file carries the file type above the 12 mode bits
S_IFREG == 32768
\* chmod(2) keeps the low 12 bits of its argument (07777 + 1)
ModeSpan == 4096

PermBits == 0 .. (ModeSpan - 1)

\* m & b # 0 for a single bit b
HasBit(m, b) == (m \div b) % 2 = 1

\* m | b for a single bit b
SetBit(m, b) == IF HasBit(m, b) THEN m ELSE m + b

\* fileStat.st_mode | 0111
OrExecBits(m) == SetBit(SetBit(SetBit(m, S_IXUSR), S_IXGRP), S_IXOTH)

\* the loop of makeNonExecutable: for each of 0100, 0010, 0001,
\* subtract the bit if it is set
StripOneBitDropOther(m, b) == IF b = S_IXOTH THEN m ELSE IF HasBit(m, b) THEN m - b ELSE m
StripOneBit(m, b) == IF HasBit(m, b) THEN m - b ELSE m

StripExecBits(m) == StripOneBit(StripOneBit(StripOneBit(m, S_IXUSR), S_IXGRP), S_IXOTH)

\* the early-return test of makeExecutable
AlreadyExecutable(f) ==
    \/ (f.isOwner /\ HasBit(f.st_mode, S_IXUSR))
    \/ (f.isGroup /\ HasBit(f.st_mode, S_IXGRP))
    \/ HasBit(f.st_mode, S_IXOTH)

\* chmod(path, arg): the file type stays, the 12 mode bits are replaced
Chmod(f, arg) ==
    [f EXCEPT !.st_mode = (f.st_mode - (f.st_mode % ModeSpan)) + (arg % ModeSpan)]

\* makeExecutable on file f, where chmod succeeds iff chmodOk:
\* the file afterwards, the value returned, and whether chmod was called
MakeExecutableOn(f, chmodOk) ==
    IF ~f.statOk THEN [file |-> f, rv |-> FALSE, chmodCalled |-> FALSE]
    ELSE IF AlreadyExecutable(f) THEN [file |-> f, rv |-> TRUE, chmodCalled |-> FALSE]
    ELSE IF chmodOk
    THEN [file |-> Chmod(f, OrExecBits(f.st_mode)), rv |-> TRUE, chmodCalled |-> TRUE]
    ELSE [file |-> f, rv |-> FALSE, chmodCalled |-> TRUE]

\* makeNonExecutable on file f, where chmod succeeds iff chmodOk
MakeNonExecutableOn(f, chmodOk) ==
    IF ~f.statOk THEN [file |-> f, rv |-> FALSE, chmodCalled |-> FALSE]
    ELSE IF chmodOk
    THEN [file |-> Chmod(f, StripExecBits(f.st_mode)), rv |-> TRUE, chmodCalled |-> TRUE]
    ELSE [file |-> f, rv |-> FALSE, chmodCalled |-> TRUE]

PermFiles ==
    [statOk : BOOLEAN, st_mode : {S_IFREG + p : p \in PermBits},
     isOwner : BOOLEAN, isGroup : BOOLEAN]

PermRecord(op, out, before, twice) ==
    [op |-> op, rv |-> out.rv, chmodCalled |-> out.chmodCalled,
     before |-> before, twice |-> twice]

\* bool makeExecutable(const QString& path)
makeExecutable ==
    \E chmodOk \in BOOLEAN :
        LET out == MakeExecutableOn(perm, chmodOk)
        IN  /\ perm' = out.file
            /\ plast' = PermRecord("makeExecutable", out, perm.st_mode, FALSE)
            /\ UNCHANGED <<fsVars, timeVars, cfgVars>>

\* bool makeNonExecutable(const QString& path)
makeNonExecutable ==
    \E chmodOk \in BOOLEAN :
        LET out == MakeNonExecutableOn(perm, chmodOk)
        IN  /\ perm' = out.file
            /\ plast' = PermRecord("makeNonExecutable", out, perm.st_mode,
                                   plast.op = "makeNonExecutable" /\ plast.rv)
            /\ UNCHANGED <<fsVars, timeVars, cfgVars>>

(***************************************************************************)
(* Bundles, paths and desktop entry files                                  *)
(***************************************************************************)
\* two bundle paths: a download, and a path with a space in it whose first
\* word is the first path
PX == <<"x">>
PXY == <<"x", " ", "y">>
Paths == {PX, PXY}

\* the paths integrateAppImage is given as its target
Targets == Paths

NameA == <<"a">>
NameAB == <<"a", "b">>

\* " (n)"
Bracket(n) == <<" ", "(">> \o NumToStr(n) \o <<")">>

\* a bundle: the Name of the desktop entry it embeds (if it has one) and
\* whether it carries update information
Bundles ==
    {[name |-> Some(NameA), upd |-> TRUE],
     [name |-> None, upd |-> FALSE]}

\* QFile(path).exists()
Exists(fs, path) == path \in Paths /\ fs[path] # None

\* the desktop file libappimage keeps for the bundle at path p
\* (appimage_registered_desktop_file_path): appimagekit_<md5 of p>-*.desktop
\* in the user's applications directory
DF(p) == [dir |-> "user", prefix |-> "appimagekit_", key |-> p]

\* a desktop file of another application in the user's applications directory
\* and one in /usr/share/applications
OtherUser == [dir |-> "user", prefix |-> "other", key |-> <<>>]
OtherSys == [dir |-> "system", prefix |-> "other", key |-> <<>>]

DesktopIds == {DF(p) : p \in Paths} \cup {OtherUser, OtherSys}

\* the arguments that follow the bundle's path in Exec
ExecArgs == <<" ", "%">>

\* the mode libappimage creates the desktop file with (0644)
LibFileMode == 420

\* the library in use adds a TryExec key; older versions did not
LibWritesTryExec == TRUE

\* appimage_register_in_system: the bundle's own desktop entry, written anew
\* with Exec (and, in newer versions of the library, TryExec) pointing at the
\* bundle
LibRegister(path, bundle, withTryExec) ==
    [parsable |-> TRUE, name |-> bundle.name, exec |-> Some(path \o ExecArgs),
     tryExec |-> IF withTryExec THEN Some(path) ELSE None,
     actions |-> None, removeExec |-> None, updateExec |-> None,
     version |-> FALSE, st_mode |-> S_IFREG + LibFileMode]

\* the Name of the other application's entry in each directory
ForeignName(id) == IF id.dir = "user" THEN NameAB ELSE NameA \o Bracket(2)

\* an entry of another application; what it launches is not on disk
ForeignEntry(n) ==
    [parsable |-> TRUE, name |-> Some(n), exec |-> Some(<<"f">> \o ExecArgs),
     tryExec |-> None, actions |-> None, removeExec |-> None,
     updateExec |-> None, version |-> FALSE, st_mode |-> S_IFREG + LibFileMode]

\* QString(const char*) of a possibly null pointer: null gives the empty text
QStr(o) == IF o = None THEN <<>> ELSE Get(o)

(***************************************************************************)
(* findCollisions                                                          *)
(***************************************************************************)
\* the files of both applications directories that the key file parser
\* loads, that have a Name, and whose trimmed Name starts with the trimmed
\* current Name
findCollisions(d, currentNameEntry) ==
    {id \in DesktopIds :
        /\ d[id] # None
        /\ Get(d[id]).parsable
        /\ Get(d[id]).name # None
        /\ StartsWith(Trimmed(Get(Get(d[id]).name)), Trimmed(currentNameEntry))}

\* the number read from one colliding Name: match.captured(0).toUInt()
NumberRead(match) == ToUInt(match.captured0)

\* the loop over the collisions: the number to append
RECURSIVE NextNumber(_, _, _)
NextNumber(d, ids, currentNumber) ==
    IF ids = {} THEN currentNumber
    ELSE LET id == CHOOSE i \in ids : TRUE
             match == RegexMatch(Get(Get(d[id]).name))
             num == NumberRead(match)
         IN  NextNumber(d, ids \ {id},
                        IF match.hasMatch /\ num >= currentNumber
                        THEN num + 1 ELSE currentNumber)

(***************************************************************************)
(* installDesktopFileAndIcons                                              *)
(***************************************************************************)
\* what can go wrong in one call: nothing; appimage_register_in_system
\* fails; the desktop file cannot be found, loaded or saved; realpath of
\* /proc/self/exe fails (getOwnBinaryPath throws)
InstallFaults == {"none", "register", "desktopfile", "ownpath"}

\* displayMessageBox asks isHeadless first, which throws when xhost exits
\* with a code it does not expect; otherwise the message is shown
UiOutcomes == {"shown", "throws"}

\* collisions.erase(collisions.find(desktopFilePath)) when the own file is
\* not among the collisions erases end(): undefined behaviour.  The process
\* dies, or goes on with the map as it was, or with the map emptied.
UbOutcomes == {"kept", "crash", "emptied"}

\* "#ifdef ENABLE_+_HELPER": the preprocessor tests the macro ENABLE_,
\* which nothing defines, so the block that adds the Update action is
\* never compiled
UpdateActionCompiled == FALSE

\* privateLibDirPath + "/remove" (or "/update") + " \"" + pathToAppImage + "\""
ActionExec(helper, path) == <<helper, " ", "\"">> \o path \o <<"\"">>

\* the desktop file's mode after makeExecutable(desktopFilePath); the file
\* is the caller's own and chmod on it succeeds
ModeAfterMakeExecutable(m) ==
    MakeExecutableOn([statOk |-> TRUE, st_mode |-> m, isOwner |-> TRUE,
                      isGroup |-> TRUE], TRUE).file.st_mode

\* the keys the function sets before it saves the file
LauncherEntry(entry, newName, path, withUpdate) ==
    [entry EXCEPT
        !.name = newName,
        !.removeExec = Some(ActionExec("/remove", path)),
        !.updateExec = IF withUpdate THEN Some(ActionExec("/update", path)) ELSE @,
        !.actions = Some(IF withUpdate THEN <<"Remove", "Update">> ELSE <<"Remove">>),
        !.version = TRUE]

\* installDesktopFileAndIcons(path, resolveCollisions) on bundle files fs and
\* desktop files d, under the inputs in: the desktop files afterwards and how
\* the call ended ("true", "false", "threw" an exception, "crashed")
Install(fs, d, path, resolveCollisions, in) ==
    LET own == DF(path)
        failed(dx) == [desktop |-> dx,
                       rv |-> IF in.ui = "throws" THEN "threw" ELSE "false"]
    IN  IF ~Exists(fs, path) \/ in.fault = "register" THEN failed(d)
        ELSE
        LET d1 == [d EXCEPT ![own] = Some(LibRegister(path, Get(fs[path]), LibWritesTryExec))]
            nameEntry == Get(d1[own]).name
            found == findCollisions(d1, QStr(nameEntry))
            eraseEnd == resolveCollisions /\ own \notin found
            collisions == IF ~resolveCollisions THEN {}
                          ELSE IF eraseEnd
                          THEN (IF in.ub = "emptied" THEN {} ELSE found)
                          ELSE found \ {own}
            newName == IF collisions # {}
                       THEN Some(QStr(nameEntry) \o Bracket(NextNumber(d1, collisions, 1)))
                       ELSE nameEntry
            withUpdate == UpdateActionCompiled /\ Get(fs[path]).upd
            saved == LauncherEntry(Get(d1[own]), newName, path, withUpdate)
            final == [saved EXCEPT !.st_mode = ModeAfterMakeExecutable(saved.st_mode)]
        IN  IF in.fault = "desktopfile" THEN failed(d1)
            ELSE IF nameEntry = None /\ in.ui = "throws"
            THEN [desktop |-> d1, rv |-> "threw"]
            ELSE IF eraseEnd /\ in.ub = "crash"
            THEN [desktop |-> d1, rv |-> "crashed"]
            ELSE IF in.fault = "ownpath"
            THEN [desktop |-> d1, rv |-> "threw"]
            ELSE [desktop |-> [d1 EXCEPT ![own] = Some(final)], rv |-> "true"]

\* the inputs of one call that the call can read: a missing bundle leaves
\* only the error message; the outcome of erasing end() matters only for a
\* bundle without a Name
InstallInputs(fs, path) ==
    IF ~Exists(fs, path)
    THEN [fault : {"none"}, ui : UiOutcomes, ub : {"kept"}]
    ELSE [fault : {"register", "desktopfile"}, ui : UiOutcomes, ub : {"kept"}]
         \cup [fault : {"none", "ownpath"},
               ui : IF Get(fs[path]).name = None THEN UiOutcomes ELSE {"shown"},
               ub : IF Get(fs[path]).name = None THEN UbOutcomes ELSE {"kept"}]

\* every way one call can end
InstallOutcomes(fs, d, path, resolveCollisions) ==
    {Install(fs, d, path, resolveCollisions, in) : in \in InstallInputs(fs, path)}

(***************************************************************************)
(* integrateAppImage                                                       *)
(***************************************************************************)
\* what can go wrong with the bundle file: nothing; QFile::remove of the
\* existing target fails; QFile::rename fails; rename and QFile::copy fail
IoFaults == {"none", "remove", "rename", "copy"}

\* the default of resolveCollisions is declared in shared.h, which is not
\* among the sources: the call at the end of integrateAppImage is modelled
\* with either value
DefaultResolveCollisions == BOOLEAN

\* the path integrateAppImage installs the desktop file for
InstallTargetIsSource(oldPath, newPath) == oldPath
InstallTarget(oldPath, newPath) == newPath

\* the bundle files after the user has answered the overwrite question
AfterAnswerRemoveFirst(fs, newPath, answer, removeOk) ==
    IF removeOk THEN [fs EXCEPT ![newPath] = None] ELSE fs
AfterAnswer(fs, newPath, answer, removeOk) ==
    IF answer = "Yes" /\ removeOk THEN [fs EXCEPT ![newPath] = None] ELSE fs

\* the first part of integrateAppImage, up to the call of
\* installDesktopFileAndIcons: the bundle files afterwards and how the part
\* ended ("install" when the call is reached)
Move(fs, oldPath, newPath, in) ==
    LET differ == oldPath # newPath
        asked == differ /\ Exists(fs, newPath)
        fs1 == IF asked THEN AfterAnswer(fs, newPath, in.overwrite, in.io # "remove")
               ELSE fs
        renameOk == /\ in.io \notin {"rename", "copy"}
                    /\ Exists(fs1, oldPath) /\ ~Exists(fs1, newPath)
        copyOk == in.io # "copy" /\ Exists(fs1, oldPath) /\ ~Exists(fs1, newPath)
        moved == [fs1 EXCEPT ![newPath] = fs1[oldPath], ![oldPath] = None]
        copied == [fs1 EXCEPT ![newPath] = fs1[oldPath]]
        end(fsx, rv) ==
            [files |-> fsx, rv |-> rv,
             answer |-> IF asked THEN in.overwrite ELSE "none"]
    IN  IF ~differ THEN end(fs, "install")
        ELSE IF asked /\ in.overwrite = "No" THEN end(fs1, "INTEGRATION_ABORTED")
        ELSE IF renameOk THEN end(moved, "install")
        ELSE IF in.copyInstead = "Cancel" THEN end(fs1, "INTEGRATION_FAILED")
        ELSE IF copyOk THEN end(copied, "install")
        ELSE end(fs1, IF in.ui = "throws" THEN "threw" ELSE "INTEGRATION_FAILED")

\* the value integrateAppImage returns for the outcome of the install call
IntegrationState(rv) ==
    IF rv = "true" THEN "INTEGRATION_SUCCESSFUL"
    ELSE IF rv = "false" THEN "INTEGRATION_FAILED"
    ELSE rv

\* the inputs of the part that moves the bundle: the answers are read
\* only if the questions are asked
MoveInputs(fs, oldPath, newPath) ==
    IF oldPath = newPath
    THEN [overwrite : {"Yes"}, io : {"none"}, copyInstead : {"Ok"}, ui : {"shown"}]
    ELSE IF Exists(fs, newPath)
    THEN [overwrite : {"No"}, io : {"none"}, copyInstead : {"Ok"}, ui : {"shown"}]
         \cup [overwrite : {"Yes"}, io : {"none"}, ui : {"shown"},
               copyInstead : IF Exists(fs, oldPath) THEN {"Ok"} ELSE {"Ok", "Cancel"}]
         \cup [overwrite : {"Yes"}, io : {"remove", "rename"}, copyInstead : {"Ok", "Cancel"},
               ui : {"shown"}]
         \cup [overwrite : {"Yes"}, io : {"copy"}, copyInstead : {"Ok"}, ui : UiOutcomes]
    ELSE [overwrite : {"Yes"}, io : {"none"}, ui : {"shown"},
          copyInstead : IF Exists(fs, oldPath) THEN {"Ok"} ELSE {"Ok", "Cancel"}]
         \cup [overwrite : {"Yes"}, io : {"rename"}, copyInstead : {"Ok", "Cancel"},
               ui : {"shown"}]
         \cup [overwrite : {"Yes"}, io : {"copy"}, copyInstead : {"Ok"}, ui : UiOutcomes]

\* every way one call of integrateAppImage can end: the bundle files and
\* desktop files afterwards, the value returned (or "threw", "crashed"),
\* the user's answer to the overwrite question ("none" if it was not asked)
\* and the resolveCollisions the install call ran with
IntegrateOutcomes(fs, d, oldPath, newPath) ==
    UNION {
        LET m == Move(fs, oldPath, newPath, mv)
        IN  IF m.rv # "install"
            THEN {[files |-> m.files, desktop |-> d, rv |-> m.rv,
                   answer |-> m.answer, resolve |-> FALSE]}
            ELSE UNION {
                    {[files |-> m.files, desktop |-> out.desktop,
                      rv |-> IntegrationState(out.rv), answer |-> m.answer,
                      resolve |-> r] :
                        out \in InstallOutcomes(m.files, d, InstallTarget(oldPath, newPath), r)}
                    : r \in DefaultResolveCollisions}
        : mv \in MoveInputs(fs, oldPath, newPath)}

(***************************************************************************)
(* cleanUpOldDesktopIntegrationResources                                   *)
(***************************************************************************)
\* directory.setNameFilters("appimagekit_*.desktop") on the user's
\* applications directory
MatchesFilter(id) == id.dir = "user" /\ id.prefix = "appimagekit_"

\* the path whose existence decides: TryExec if the key is there, else the
\* first word of Exec
AppImagePathOf(entry) ==
    IF entry.tryExec # None THEN Get(entry.tryExec)
    ELSE FirstWord(Get(entry.exec))

\* whether the loop removes the desktop file id
Removes(fs, d, id) ==
    /\ MatchesFilter(id)
    /\ d[id] # None
    /\ Get(d[id]).parsable
    /\ Get(d[id]).exec # None
    /\ ~Exists(fs, AppImagePathOf(Get(d[id])))

CleanUp(fs, d) == [id \in DesktopIds |-> IF Removes(fs, d, id) THEN None ELSE d[id]]

(***************************************************************************)
(* The staleness checks                                                    *)
(***************************************************************************)
\* how far st_mtim.tv_sec reaches before and after the epoch in the model;
\* time_t is signed
MaxPast == 2
MaxTime == 3
TimeT == (0 - MaxPast) .. MaxTime

\* getMTime(path): -1 after displayError when stat fails (displayError may
\* throw, see UiOutcomes), else st_mtim.tv_sec.  st is the stat result.
getMTime(st, ui) ==
    IF st = None
    THEN [threw |-> ui = "throws", value |-> 0 - 1]
    ELSE [threw |-> FALSE, value |-> Get(st)]

\* the stat result of the path appimage_registered_desktop_file_path
\* returns: a null pointer becomes the empty path, on which stat fails
DesktopFileStat(env) == IF env.registered THEN env.deskStat ELSE None

\* bool desktopFileHasBeenUpdatedSinceLastUpdate(pathToAppImage)
DesktopFileUpdated(env) ==
    IF ~env.realpathOk THEN "threw"
    ELSE LET ownBinaryMTime == getMTime(env.ownStat, env.ui)
             desktopFileMTime == getMTime(DesktopFileStat(env), env.ui)
         IN  IF ownBinaryMTime.threw \/ desktopFileMTime.threw THEN "threw"
             ELSE IF desktopFileMTime.value < 0 \/ ownBinaryMTime.value < 0 THEN "false"
             ELSE IF desktopFileMTime.value > ownBinaryMTime.value THEN "true"
             ELSE "false"

\* size_t arithmetic wraps; the model wraps at 2^30 where the code wraps at
\* 2^64 (no text of the model is that long, so the results agree)
SizeSpan == 1073741824
Npos == SizeSpan - 1

\* std::string::find(c): the index (from 0) of the first c, or npos
Find(s, c) ==
    IF \E i \in 1 .. Len(s) : s[i] = c
    THEN (CHOOSE i \in 1 .. Len(s) : s[i] = c /\ \A j \in 1 .. (i - 1) : s[j] # c) - 1
    ELSE Npos

\* std::string::substr(pos, count) for pos <= size
Substr(s, pos, count) ==
    SubSeq(s, pos + 1, IF pos + count > Len(s) THEN Len(s) ELSE pos + count)

\* the text std::stoll converts: leading whitespace is skipped, a sign is
\* optional, then the digits up to the first other character
RECURSIVE SkipSpace(_)
SkipSpace(s) == IF s # <<>> /\ IsSpace(s[1]) THEN SkipSpace(Tail(s)) ELSE s

RECURSIVE DigitPrefix(_)
DigitPrefix(s) ==
    IF s # <<>> /\ IsDigit(s[1]) THEN <<s[1]>> \o DigitPrefix(Tail(s)) ELSE <<>>

\* std::stoll(text): the number, or std::invalid_argument when no digits
\* can be converted
Stoll(text) ==
    LET t == SkipSpace(text)
        signed == t # <<>> /\ t[1] \in {"-", "+"}
        digits == DigitPrefix(IF signed THEN Tail(t) ELSE t)
        magnitude == DigitsToNat(digits)
    IN  [threw |-> digits = <<>>,
         value |-> IF signed /\ t[1] = "-" THEN 0 - magnitude ELSE magnitude]

\* 1e6
MicrosPerSecond == 1000000

\* static_cast<long long>(n / 1e6): the quotient truncated towards zero
ToSeconds(n) ==
    IF n >= 0 THEN n \div MicrosPerSecond ELSE 0 - ((0 - n) \div MicrosPerSecond)

\* the lambda getServiceStartTime: -1 when popen fails, else the number
\* between '=' and the end of the first line of systemctl's output, in
\* seconds, plus the offset of the realtime clock to the monotonic clock
getServiceStartTime(popenOk, output, offset) ==
    IF ~popenOk THEN [threw |-> FALSE, value |-> 0 - 1]
    ELSE LET equalsPos == Find(output, "=")
             lfFound == Find(output, "\n")
             lfPos == IF lfFound = Npos THEN Len(output) ELSE lfFound
             timestamp == Substr(output, (equalsPos + 1) % SizeSpan,
                                 (lfPos - equalsPos - 1) % SizeSpan)
             parsed == Stoll(timestamp)
         IN  [threw |-> parsed.threw, value |-> ToSeconds(parsed.value) + offset]

\* bool fsDaemonHasBeenRestartedSinceLastUpdate()
FsDaemonRestarted(env, popenOk, output) ==
    IF ~env.realpathOk THEN "threw"
    ELSE LET ownBinaryMTime == getMTime(env.ownStat, env.ui)
             serviceStartTime == getServiceStartTime(popenOk, output, env.offset)
         IN  IF ownBinaryMTime.threw \/ serviceStartTime.threw THEN "threw"
             ELSE IF serviceStartTime.value < 0 \/ ownBinaryMTime.value < 0 THEN "false"
             ELSE IF serviceStartTime.value > ownBinaryMTime.value THEN "true"
             ELSE "false"

\* what systemctl prints: nothing; a text without a number; the property
\* line with a timestamp in microseconds
PropertyLine(seconds, micros) ==
    <<"A", "=">> \o NumToStr(seconds * MicrosPerSecond + micros) \o <<"\n">>

SystemctlOutputs ==
    {<<>>, <<"F", "\n">>, <<"A", "=", "\n">>}
    \cup {PropertyLine(sec, us) : sec \in 0 .. MaxTime, us \in {0, MicrosPerSecond - 1}}

TimeEnvs ==
    [realpathOk : BOOLEAN, ownStat : {None} \cup {Some(t) : t \in TimeT},
     registered : BOOLEAN, deskStat : {None} \cup {Some(t) : t \in TimeT},
     ui : UiOutcomes, offset : {0, 1}]

TimeStart ==
    /\ tenv = [realpathOk |-> TRUE, ownStat |-> Some(0), registered |-> FALSE,
               deskStat |-> None, ui |-> "shown", offset |-> 0]
    /\ tlast = [op |-> "none", popenOk |-> TRUE, output |-> <<>>, rv |-> "none"]

(***************************************************************************)
(* The config file: createConfigFile, getConfig, expandTilde               *)
(***************************************************************************)
\* "[AppImageLauncher]\n"
SectionLine ==
    <<"[", "A", "p", "p", "I", "m", "a", "g", "e", "L", "a", "u", "n", "c",
      "h", "e", "r", "]", "\n">>

SectionName ==
    <<"A", "p", "p", "I", "m", "a", "g", "e", "L", "a", "u", "n", "c", "h",
      "e", "r">>

AskToMoveKey ==
    <<"a", "s", "k", "_", "t", "o", "_", "m", "o", "v", "e">>

DestinationKey ==
    <<"d", "e", "s", "t", "i", "n", "a", "t", "i", "o", "n">>

EnableDaemonKey ==
    <<"e", "n", "a", "b", "l", "e", "_", "d", "a", "e", "m", "o", "n">>

OptionKeys == {AskToMoveKey, DestinationKey, EnableDaemonKey}

\* "# destination = ~/Applications\n"
DestinationDefaultLine ==
    <<"#", " ", "d", "e", "s", "t", "i", "n", "a", "t", "i", "o", "n", " ",
      "=", " ", "~", "/", "A", "p", "p", "l", "i", "c", "a", "t", "i", "o",
      "n", "s", "\n">>

TrueText == <<"t", "r", "u", "e">>
FalseText == <<"f", "a", "l", "s", "e">>

\* the lines written for ask_to_move and enable_daemon: "# <key> = true\n"
\* for a negative option, else "<key> = " then "false" for 0 and "true"
\* for any other value, then "\n"
IntOptionLine(key, option) ==
    IF option < 0
    THEN <<"#", " ">> \o key \o <<" ", "=", " ">> \o TrueText \o <<"\n">>
    ELSE key \o <<" ", "=", " ">>
         \o (IF option = 0 THEN FalseText ELSE TrueText) \o <<"\n">>

\* the line written for destination
DestinationLine(destination) ==
    IF destination = <<>> THEN DestinationDefaultLine
    ELSE DestinationKey \o <<" ", "=", " ">> \o destination \o <<"\n">>

\* everything createConfigFile writes, in order
ConfigText(askToMove, destination, enableDaemon) ==
    SectionLine \o IntOptionLine(AskToMoveKey, askToMove)
    \o DestinationLine(destination) \o IntOptionLine(EnableDaemonKey, enableDaemon)

\* the config file after createConfigFile: QIODevice::WriteOnly truncates
\* the file; if open fails the writes do nothing and the code does not look
CreateConfigFile(cfg, askToMove, destination, enableDaemon, openOk) ==
    IF openOk THEN Some(ConfigText(askToMove, destination, enableDaemon)) ELSE cfg

\* the lines of a text: the pieces that line feeds end, and what follows
\* the last line feed if that is not empty
SplitLines(text) ==
    LET feeds == {i \in 1 .. Len(text) : text[i] = "\n"}
        starts == {s \in {1} \cup {i + 1 : i \in feeds} : s <= Len(text)}
        start(n) == CHOOSE s \in starts : Cardinality({t \in starts : t < s}) = n - 1
        end(s) == IF \E i \in feeds : i >= s
                  THEN (CHOOSE i \in feeds : i >= s /\ \A j \in feeds : j >= s => i <= j) - 1
                  ELSE Len(text)
    IN  [n \in 1 .. Cardinality(starts) |-> SubSeq(text, start(n), end(start(n)))]

\* what QSettings (IniFormat) makes of one line: a section header, a key
\* with its value (both trimmed, split at the first '='), or nothing for
\* an empty line and for a line that starts with ';' or '#', which gives
\* no key of an option
ParseLine(line) ==
    LET t == Trimmed(line)
        eq == Find(t, "=")
    IN  IF t = <<>> \/ t[1] \in {"#", ";"}
        THEN [kind |-> "none", key |-> <<>>, value |-> <<>>]
        ELSE IF t[1] = "[" /\ t[Len(t)] = "]"
        THEN [kind |-> "section", key |-> SubSeq(t, 2, Len(t) - 1), value |-> <<>>]
        ELSE IF eq = Npos
        THEN [kind |-> "key", key |-> t, value |-> <<>>]
        ELSE [kind |-> "key", key |-> Trimmed(SubSeq(t, 1, eq)),
              value |-> Trimmed(SubSeq(t, eq + 2, Len(t)))]

NoSettings == [k \in OptionKeys |-> None]

\* the options QSettings holds after it has read the lines: for each key
\* of the section AppImageLauncher the value of its last line
RECURSIVE ReadLines(_, _, _)
ReadLines(lines, section, settings) ==
    IF lines = <<>> THEN settings
    ELSE LET parsed == ParseLine(lines[1])
         IN  IF parsed.kind = "section"
             THEN ReadLines(Tail(lines), parsed.key, settings)
             ELSE IF parsed.kind = "key" /\ section = SectionName /\ parsed.key \in OptionKeys
             THEN ReadLines(Tail(lines), section,
                            [settings EXCEPT ![parsed.key] = Some(parsed.value)])
             ELSE ReadLines(Tail(lines), section, settings)

\* QSettings(configFilePath, QSettings::IniFormat)
ReadSettings(text) == ReadLines(SplitLines(text), <<>>, NoSettings)

\* what QSettings writes back: the section, then "key=value" for each key
\* it holds, in the order of the keys
SettingLine(settings, key) ==
    IF settings[key] = None THEN <<>>
    ELSE key \o <<"=">> \o Get(settings[key]) \o <<"\n">>

WriteSettings(settings) ==
    SectionLine \o SettingLine(settings, AskToMoveKey)
    \o SettingLine(settings, DestinationKey) \o SettingLine(settings, EnableDaemonKey)

\* QDir::homePath()
Home == <<"/", "h">>

\* DEFAULT_INTEGRATION_DESTINATION, defined outside these sources
DefaultDestination == <<"/", "h", "/", "D">>

\* QString expandTilde(QString path): path[0] of an empty text is the null
\* character
expandTildeKeepsTilde(path) ==
    IF path # <<>> /\ path[1] = "~" THEN Home \o path ELSE path
expandTilde(path) ==
    IF path # <<>> /\ path[1] = "~" THEN Home \o Tail(path) ELSE path

\* getConfig(): no settings when the file does not exist; else the settings
\* read, with destination (if the key is there) replaced by its expansion.
\* setValue makes QSettings write the file anew when it syncs; syncOk says
\* whether that write succeeds.
getConfig(cfg, syncOk) ==
    IF cfg = None THEN [settings |-> None, config |-> cfg]
    ELSE LET rv == ReadSettings(Get(cfg))
         IN  IF rv[DestinationKey] # None
             THEN LET newValue == expandTilde(Get(rv[DestinationKey]))
                      set == [rv EXCEPT ![DestinationKey] = Some(newValue)]
                  IN  [settings |-> Some(set),
                       config |-> IF syncOk THEN Some(WriteSettings(set)) ELSE cfg]
             ELSE [settings |-> Some(rv), config |-> cfg]

\* QDir integratedAppImagesDestination(): the directory's path as text,
\* and the config file afterwards
IntegratedAppImagesDestination(cfg, syncOk) ==
    LET got == getConfig(cfg, syncOk)
    IN  [config |-> got.config,
         rv |-> IF got.settings = None THEN DefaultDestination
                ELSE IF Get(got.settings)[DestinationKey] # None
                THEN Get(Get(got.settings)[DestinationKey])
                ELSE DefaultDestination]

(***************************************************************************)
(* buildPathToIntegratedAppImage                                           *)
(***************************************************************************)
\* the index of the last c in s, 0 if there is none
LastIndexOf(s, c) ==
    IF \E i \in 1 .. Len(s) : s[i] = c
    THEN CHOOSE i \in 1 .. Len(s) : s[i] = c /\ \A j \in (i + 1) .. Len(s) : s[j] # c
    ELSE 0

\* QFileInfo::fileName(): what follows the last '/'
FileName(path) == SubSeq(path, LastIndexOf(path, "/") + 1, Len(path))

\* QFileInfo::path(): what precedes the last '/'
DirName(path) == SubSeq(path, 1, LastIndexOf(path, "/") - 1)

\* QFileInfo::completeBaseName(): the file name up to, not including, its
\* last '.'
CompleteBaseName(path) ==
    LET name == FileName(path)
        dot == LastIndexOf(name, ".")
    IN  IF dot = 0 THEN name ELSE SubSeq(name, 1, dot - 1)

\* QFileInfo::suffix(): what follows the last '.' of the file name
Suffix(path) ==
    LET name == FileName(path)
        dot == LastIndexOf(name, ".")
    IN  IF dot = 0 THEN <<>> ELSE SubSeq(name, dot + 1, Len(name))

\* the MD5 digest of a bundle in hexadecimal
HexDigest == <<"d">>

\* what libappimage says about a bundle file: its type, and the digest it
\* yields (none if reading or calculating it fails)
AppImages ==
    [type : {1, 2}, md5 : {None, Some(HexDigest)}]

\* QString getAppImageDigestMd5(path): empty unless the bundle is of type 2
\* and the digest can be read or calculated
getAppImageDigestMd5(appImage) ==
    IF appImage.type # 2 THEN <<>>
    ELSE IF appImage.md5 = None THEN <<>>
    ELSE Get(appImage.md5)

\* the text the digest suffix is looked for in: pathToAppImage
DigestSearchedIn(pathToAppImage) == pathToAppImage

\* QString buildPathToIntegratedAppImage(pathToAppImage), given the digest
\* and the destination directory's path
BuildPath(pathToAppImage, digest, destination) ==
    LET digestSuffix == <<"_">> \o digest
        baseName == IF digest # <<>> /\ ~Contains(DigestSearchedIn(pathToAppImage), digestSuffix)
                    THEN CompleteBaseName(pathToAppImage) \o <<"_">> \o digest
                    ELSE CompleteBaseName(pathToAppImage)
        fileName == IF Suffix(pathToAppImage) # <<>>
                    THEN baseName \o <<".">> \o Suffix(pathToAppImage)
                    ELSE baseName
    IN  destination \o <<"/">> \o fileName

(***************************************************************************)
(* isHeadless                                                              *)
(***************************************************************************)
\* proc.exitCode() of xhost: "case 255", program not found
ExitCodeNotFound == 255
ExitCodes == 0 .. 255

\* the fallback when xhost is not there: getenv("DISPLAY") == nullptr
DisplayFallbackInverted(displaySet) == displaySet
DisplayFallback(displaySet) == ~displaySet

\* bool isHeadless(): "true", "false", or "threw" std::runtime_error
IsHeadless(forceHeadless, exitCode, displaySet) ==
    IF forceHeadless THEN "true"
    ELSE IF exitCode = ExitCodeNotFound
    THEN (IF DisplayFallback(displaySet) THEN "true" ELSE "false")
    ELSE IF exitCode \in {0, 1}
    THEN (IF exitCode = 1 THEN "true" ELSE "false")
    ELSE "threw"

\* no helper has been called, and there is no config file
NoHelperCall == [op |-> "none", args |-> <<>>, rv |-> <<>>]

CfgStart ==
    /\ config = None
    /\ wlast = NoHelperCall

(***************************************************************************)
(* The desktop-integration state machine                                   *)
(***************************************************************************)
\* how many desktop files of other applications there are at once
MaxForeign == 1

NoCall == [op |-> "none", path |-> <<>>, rv |-> "none"]

Call(op, path, rv) == [op |-> op, path |-> path, rv |-> rv]

FsStart ==
    /\ files = [p \in Paths |-> None]
    /\ desktop = [id \in DesktopIds |-> None]
    /\ last = NoCall

PermStart ==
    /\ perm = [statOk |-> TRUE, st_mode |-> S_IFREG + LibFileMode,
               isOwner |-> TRUE, isGroup |-> TRUE]
    /\ plast = PermRecord("none", [rv |-> FALSE, chmodCalled |-> FALSE], perm.st_mode, FALSE)

Init == FsStart /\ PermStart /\ TimeStart /\ CfgStart

\* IntegrationState integrateAppImage(pathToAppImage, pathToIntegratedAppImage)
integrateAppImage ==
    \E oldPath \in Paths, newPath \in Targets :
        \E out \in IntegrateOutcomes(files, desktop, oldPath, newPath) :
            /\ files' = out.files
            /\ desktop' = out.desktop
            /\ last' = Call("integrateAppImage", newPath, out.rv)
            /\ UNCHANGED <<permVars, timeVars, cfgVars>>

\* bool installDesktopFileAndIcons(pathToAppImage, resolveCollisions), also
\* reached through updateDesktopFileAndIcons (resolveCollisions = true)
installDesktopFileAndIcons ==
    \E path \in Paths, resolveCollisions \in BOOLEAN :
        \E out \in InstallOutcomes(files, desktop, path, resolveCollisions) :
            /\ desktop' = out.desktop
            /\ last' = Call("installDesktopFileAndIcons", path, out.rv)
            /\ UNCHANGED <<files, permVars, timeVars, cfgVars>>

\* bool cleanUpOldDesktopIntegrationResources(bool verbose)
cleanUpOldDesktopIntegrationResources ==
    /\ desktop' = CleanUp(files, desktop)
    /\ last' = Call("cleanUpOldDesktopIntegrationResources", <<>>, "true")
    /\ UNCHANGED <<files, permVars, timeVars, cfgVars>>

\* the user downloads a bundle
EnvCreateBundle ==
    \E p \in Paths, b \in Bundles :
        /\ files[p] = None
        /\ files' = [files EXCEPT ![p] = Some(b)]
        /\ last' = Call("env", <<>>, "none")
        /\ UNCHANGED <<desktop, permVars, timeVars, cfgVars>>

\* the user deletes a bundle
EnvDeleteBundle ==
    \E p \in Paths :
        /\ files[p] # None
        /\ files' = [files EXCEPT ![p] = None]
        /\ last' = Call("env", <<>>, "none")
        /\ UNCHANGED <<desktop, permVars, timeVars, cfgVars>>

\* another application installs its desktop file
EnvForeignEntry ==
    \E id \in {OtherUser, OtherSys} :
        /\ Cardinality({o \in {OtherUser, OtherSys} : desktop[o] # None}) < MaxForeign
        /\ desktop[id] = None
        /\ desktop' = [desktop EXCEPT ![id] = Some(ForeignEntry(ForeignName(id)))]
        /\ last' = Call("env", <<>>, "none")
        /\ UNCHANGED <<files, permVars, timeVars, cfgVars>>

Next ==
    \/ integrateAppImage
    \/ installDesktopFileAndIcons
    \/ cleanUpOldDesktopIntegrationResources
    \/ EnvCreateBundle
    \/ EnvDeleteBundle
    \/ EnvForeignEntry

Spec == Init /\ [][Next]_vars

(***************************************************************************)
(* The permission helpers on their own: any mode, any caller               *)
(***************************************************************************)
InitPerm ==
    /\ FsStart
    /\ TimeStart
    /\ CfgStart
    /\ perm \in PermFiles
    /\ plast = PermRecord("none", [rv |-> FALSE, chmodCalled |-> FALSE], perm.st_mode, FALSE)

NextPerm == makeExecutable \/ makeNonExecutable

SpecPerm == InitPerm /\ [][NextPerm]_vars

(***************************************************************************)
(* The staleness checks on their own: any modification times, any output   *)
(***************************************************************************)
InitTime ==
    /\ FsStart
    /\ PermStart
    /\ CfgStart
    /\ tenv \in TimeEnvs
    /\ tlast = [op |-> "none", popenOk |-> TRUE, output |-> <<>>, rv |-> "none"]

desktopFileHasBeenUpdatedSinceLastUpdate ==
    /\ tlast' = [op |-> "desktopFileHasBeenUpdatedSinceLastUpdate", popenOk |-> TRUE,
                 output |-> <<>>, rv |-> DesktopFileUpdated(tenv)]
    /\ UNCHANGED <<tenv, fsVars, permVars, cfgVars>>

fsDaemonHasBeenRestartedSinceLastUpdate ==
    \E popenOk \in BOOLEAN, output \in SystemctlOutputs :
        /\ popenOk \/ output = <<>>
        /\ tlast' = [op |-> "fsDaemonHasBeenRestartedSinceLastUpdate", popenOk |-> popenOk,
                     output |-> output, rv |-> FsDaemonRestarted(tenv, popenOk, output)]
        /\ UNCHANGED <<tenv, fsVars, permVars, cfgVars>>

NextTime ==
    \/ desktopFileHasBeenUpdatedSinceLastUpdate
    \/ fsDaemonHasBeenRestartedSinceLastUpdate

SpecTime == InitTime /\ [][NextTime]_vars

(***************************************************************************)
(* Cleanup on its own: entries of any age, damaged entries, any bundles    *)
(***************************************************************************)
\* a bundle as the user's applications directory may describe it
SomeBundle == [name |-> Some(NameA), upd |-> FALSE]

\* what an appimagekit_*.desktop file for the bundle at p may hold: an entry
\* written with or without TryExec, a file the key file parser rejects, an
\* entry without an Exec key
StoredEntries(p) ==
    LET entry(t) == LibRegister(p, SomeBundle, t)
    IN  {entry(t) : t \in BOOLEAN}
        \cup {[entry(t) EXCEPT !.parsable = FALSE] : t \in BOOLEAN}
        \cup {[entry(t) EXCEPT !.exec = None] : t \in BOOLEAN}

InitClean ==
    /\ PermStart
    /\ TimeStart
    /\ CfgStart
    /\ files \in [Paths -> {None, Some(SomeBundle)}]
    /\ \E ex \in {None} \cup {Some(e) : e \in StoredEntries(PX)},
          exy \in {None} \cup {Some(e) : e \in StoredEntries(PXY)},
          ou \in {None, Some(ForeignEntry(ForeignName(OtherUser)))} :
            desktop = [id \in DesktopIds |->
                          IF id = DF(PX) THEN ex
                          ELSE IF id = DF(PXY) THEN exy
                          ELSE IF id = OtherUser THEN ou
                          ELSE None]
    /\ last = NoCall

NextClean ==
    \/ cleanUpOldDesktopIntegrationResources
    \/ EnvCreateBundle
    \/ EnvDeleteBundle

SpecClean == InitClean /\ [][NextClean]_vars

(***************************************************************************)
(* Properties of the permission helpers                                    *)
(***************************************************************************)
\* every bit of st_mode
ModeBits == {2 ^ k : k \in 0 .. 15}
ExecBits == {S_IXUSR, S_IXGRP, S_IXOTH}

\* access(2) for execution by an unprivileged caller: the owner class
\* decides for the owner, else the group class for a group member, else
\* the class of the others
CanExecute(f) ==
    IF f.isOwner THEN HasBit(f.st_mode, S_IXUSR)
    ELSE IF f.isGroup THEN HasBit(f.st_mode, S_IXGRP)
    ELSE HasBit(f.st_mode, S_IXOTH)

\* C9: whenever makeExecutable returns true the caller can execute the file
\* afterwards; chmod is skipped only when the caller could execute it
\* already, otherwise all three execute bits are set and every other bit is
\* kept; when stat fails it returns false and the mode is unchanged.
C9_ExecutableAfterTrue ==
    plast.op = "makeExecutable" =>
        /\ plast.rv => CanExecute(perm)
        /\ (plast.rv /\ ~plast.chmodCalled) =>
               CanExecute([perm EXCEPT !.st_mode = plast.before])
        /\ (plast.rv /\ plast.chmodCalled) =>
               \A b \in ModeBits :
                   HasBit(perm.st_mode, b) = (b \in ExecBits \/ HasBit(plast.before, b))
        /\ ~perm.statOk => (~plast.rv /\ perm.st_mode = plast.before)

\* C10: when makeNonExecutable returns true no execute bit is set and every
\* other mode bit is as before the call; when stat fails it returns false
\* and the mode is unchanged; a second call gives the mode of the first.
C10_NoExecuteBitsAfterTrue ==
    plast.op = "makeNonExecutable" =>
        /\ plast.rv =>
               \A b \in ModeBits :
                   HasBit(perm.st_mode, b) = (b \notin ExecBits /\ HasBit(plast.before, b))
        /\ ~perm.statOk => (~plast.rv /\ perm.st_mode = plast.before)
        /\ (plast.rv /\ plast.twice) => perm.st_mode = plast.before

\* a successful makeNonExecutable has taken execute bits off a file that
\* had some, and kept the bits that are not execute bits
C10_Witness ==
    /\ plast.op = "makeNonExecutable"
    /\ plast.rv
    /\ HasBit(plast.before, S_IXGRP)
    /\ HasBit(plast.before, S_IXOTH)
    /\ perm.st_mode % ModeSpan = 2 * S_IXUSR

(***************************************************************************)
(* Properties of installDesktopFileAndIcons                                *)
(***************************************************************************)
\* the number in trailing brackets of a Name, 0 if it has none
BracketNumber(name) ==
    LET match == RegexMatch(name)
    IN  IF match.hasMatch THEN DigitsToNat(match.captured1) ELSE 0

Highest(numbers) == IF numbers = {} THEN 0 ELSE CHOOSE n \in numbers : \A m \in numbers : m <= n

HasNamedBundle(fs, path) == Exists(fs, path) /\ Get(fs[path]).name # None

NameOfBundle(fs, path) == Get(Get(fs[path]).name)

\* C1: with resolveCollisions and at least one other colliding entry, the
\* Name written is the original Name followed by " (N)" where N is one more
\* than the highest number in trailing brackets among the colliding names.
C1_NumberIsOneMoreThanHighest ==
    \A path \in Paths :
        \A out \in InstallOutcomes(files, desktop, path, TRUE) :
            (out.rv = "true" /\ HasNamedBundle(files, path)) =>
                LET orig == NameOfBundle(files, path)
                    others == findCollisions(desktop, orig) \ {DF(path)}
                    highest == Highest({BracketNumber(Get(Get(desktop[id]).name)) : id \in others})
                IN  others # {} =>
                        Get(out.desktop[DF(path)]).name = Some(orig \o Bracket(highest + 1))

\* C2: the Name of the bundle's entry changes only when some other existing
\* entry has a Name equal to the bundle's Name; otherwise it is written back
\* unchanged, and the bundle's own entry never counts.
C2_NameChangesOnlyOnEqualName ==
    \A path \in Paths, resolveCollisions \in BOOLEAN :
        \A out \in InstallOutcomes(files, desktop, path, resolveCollisions) :
            (out.rv = "true" /\ HasNamedBundle(files, path)) =>
                LET orig == NameOfBundle(files, path)
                    sameName == {id \in DesktopIds \ {DF(path)} :
                                    /\ desktop[id] # None
                                    /\ Get(desktop[id]).parsable
                                    /\ Get(desktop[id]).name = Some(orig)}
                IN  Get(out.desktop[DF(path)]).name # Some(orig) => sameName # {}

\* C5: after installDesktopFileAndIcons returns true the entry has a Remove
\* section whose Exec references the bundle's path, an Update section
\* exactly when the bundle carries update information, and an Actions key
\* listing exactly the sections written.
C5_ActionsMatchSections ==
    \A path \in Paths, resolveCollisions \in BOOLEAN :
        \A out \in InstallOutcomes(files, desktop, path, resolveCollisions) :
            out.rv = "true" =>
                LET entry == Get(out.desktop[DF(path)])
                IN  /\ entry.removeExec # None
                    /\ Contains(Get(entry.removeExec), path)
                    /\ (entry.updateExec # None) = Get(files[path]).upd
                    /\ entry.actions = Some(IF entry.updateExec # None
                                            THEN <<"Remove", "Update">>
                                            ELSE <<"Remove">>)

(***************************************************************************)
(* Properties of integrateAppImage                                         *)
(***************************************************************************)
\* the desktop entry of the bundle at path is the launcher entry that
\* installDesktopFileAndIcons leaves when it succeeds for that path
RegisteredFor(d, path) ==
    /\ d[DF(path)] # None
    /\ LET entry == Get(d[DF(path)])
       IN  /\ entry.parsable
           /\ entry.exec = Some(path \o ExecArgs)
           /\ entry.removeExec = Some(ActionExec("/remove", path))
           /\ entry.version
           /\ HasBit(entry.st_mode, S_IXUSR)

\* C3: whenever integrateAppImage returns INTEGRATION_SUCCESSFUL a bundle
\* exists at the target path and the desktop entry is registered for the
\* target path; the call registers nothing for a different original path.
C3_SuccessMeansRegisteredAtTarget ==
    \A oldPath \in Paths, newPath \in Targets :
        \A out \in IntegrateOutcomes(files, desktop, oldPath, newPath) :
            out.rv = "INTEGRATION_SUCCESSFUL" =>
                /\ Exists(out.files, newPath)
                /\ RegisteredFor(out.desktop, newPath)
                /\ oldPath # newPath => out.desktop[DF(oldPath)] = desktop[DF(oldPath)]

\* an integration has just succeeded: the bundle is at the target and its
\* launcher entry is in place
C3_Witness ==
    /\ last.op = "integrateAppImage"
    /\ last.rv = "INTEGRATION_SUCCESSFUL"
    /\ Exists(files, last.path)
    /\ RegisteredFor(desktop, last.path)
    /\ \E p \in Paths \ {last.path} : ~Exists(files, p) /\ desktop[DF(p)] = None

\* C4: integrateAppImage returns INTEGRATION_ABORTED only when target and
\* source differ, a file exists at the target and the user answers No; the
\* bundle files and all desktop entries are then as before the call.
C4_AbortedOnlyOnNoAndNothingChanges ==
    \A oldPath \in Paths, newPath \in Targets :
        \A out \in IntegrateOutcomes(files, desktop, oldPath, newPath) :
            out.rv = "INTEGRATION_ABORTED" =>
                /\ oldPath # newPath
                /\ Exists(files, newPath)
                /\ out.answer = "No"
                /\ out.files = files
                /\ out.desktop = desktop

\* an integration has just been aborted and the file at the target is there
C4_Witness ==
    /\ last.op = "integrateAppImage"
    /\ last.rv = "INTEGRATION_ABORTED"
    /\ Exists(files, last.path)

(***************************************************************************)
(* Properties of cleanUpOldDesktopIntegrationResources                     *)
(***************************************************************************)
\* C6: an appimagekit_*.desktop file of the user's applications directory
\* is deleted if its bundle is missing and kept if its bundle exists,
\* whatever the bundle's path; files that do not match, that cannot be
\* parsed or that have no Exec key are never deleted.
C6_RemovesExactlyStaleEntries ==
    \A id \in DesktopIds :
        desktop[id] # None =>
            LET after == CleanUp(files, desktop)[id]
                entry == Get(desktop[id])
            IN  IF MatchesFilter(id) /\ entry.parsable /\ entry.exec # None
                THEN (after = None) = ~Exists(files, id.key)
                ELSE after = desktop[id]

(***************************************************************************)
(* Properties of the staleness checks                                      *)
(***************************************************************************)
\* C7: desktopFileHasBeenUpdatedSinceLastUpdate returns true if and only if
\* both modification times can be read and the desktop file's is strictly
\* later than the own binary's; false when a stat fails, when there is no
\* registered desktop file, and when the times are equal.
C7_TrueIffDesktopFileStrictlyLater ==
    (tlast.op = "desktopFileHasBeenUpdatedSinceLastUpdate" /\ tlast.rv \in {"true", "false"}) =>
        (tlast.rv = "true") =
            (/\ tenv.ownStat # None
             /\ DesktopFileStat(tenv) # None
             /\ Get(DesktopFileStat(tenv)) > Get(tenv.ownStat))

\* C8: fsDaemonHasBeenRestartedSinceLastUpdate always returns a boolean and
\* never ends with an error.
C8_AlwaysReturnsBoolean ==
    tlast.op = "fsDaemonHasBeenRestartedSinceLastUpdate" => tlast.rv \in {"true", "false"}

(***************************************************************************)
(* Headless detection on its own: any environment, any exit code of xhost  *)
(***************************************************************************)
\* bool isHeadless()
isHeadless ==
    \E forceHeadless \in BOOLEAN, exitCode \in ExitCodes, displaySet \in BOOLEAN :
        /\ wlast' = [op |-> "isHeadless",
                     args |-> [forceHeadless |-> forceHeadless, exitCode |-> exitCode,
                               displaySet |-> displaySet],
                     rv |-> IsHeadless(forceHeadless, exitCode, displaySet)]
        /\ UNCHANGED <<config, fsVars, permVars, timeVars>>

InitHeadless == FsStart /\ PermStart /\ TimeStart /\ CfgStart

NextHeadless == isHeadless

SpecHeadless == InitHeadless /\ [][NextHeadless]_vars

\* C13: isHeadless returns true whenever _FORCE_HEADLESS is set; otherwise
\* the exit code of xhost decides: 0 gives false, 1 gives true, 255 gives
\* true iff DISPLAY is unset, and any other exit code raises an error.
C13_HeadlessByForceThenExitCode ==
    wlast.op = "isHeadless" =>
        IF wlast.args.forceHeadless THEN wlast.rv = "true"
        ELSE IF wlast.args.exitCode = 0 THEN wlast.rv = "false"
        ELSE IF wlast.args.exitCode = 1 THEN wlast.rv = "true"
        ELSE IF wlast.args.exitCode = 255
        THEN wlast.rv = (IF wlast.args.displaySet THEN "false" ELSE "true")
        ELSE wlast.rv = "threw"

\* xhost was not found, DISPLAY is unset, and isHeadless has returned true
C13_Witness ==
    /\ wlast.op = "isHeadless"
    /\ ~wlast.args.forceHeadless
    /\ wlast.args.exitCode = 255
    /\ ~wlast.args.displaySet
    /\ wlast.rv = "true"

(***************************************************************************)
(* The config file on its own: any options written, then read              *)
(***************************************************************************)
\* how far the integer options reach on either side of 0
MaxOption == 1
IntOptions == (0 - MaxOption) .. MaxOption

\* the destinations given to createConfigFile
Destinations ==
    {<<>>, <<"~">>, <<"~", "/", "A">>, <<"/", "A">>, <<"A", "~">>, <<" ">>,
     <<"/", "A", "\n", "B">>}

\* void createConfigFile(int askToMove, QString destination, int enableDaemon)
createConfigFile ==
    \E askToMove \in IntOptions, destination \in Destinations,
       enableDaemon \in IntOptions, openOk \in BOOLEAN :
        /\ config' = CreateConfigFile(config, askToMove, destination, enableDaemon, openOk)
        /\ wlast' = [op |-> "createConfigFile",
                     args |-> IF openOk
                              THEN [askToMove |-> askToMove, destination |-> destination,
                                    enableDaemon |-> enableDaemon, openOk |-> TRUE]
                              ELSE [openOk |-> FALSE],
                     rv |-> <<>>]
        /\ UNCHANGED <<fsVars, permVars, timeVars>>

\* QDir integratedAppImagesDestination()
integratedAppImagesDestination ==
    \E syncOk \in BOOLEAN :
        LET out == IntegratedAppImagesDestination(config, syncOk)
        IN  /\ config' = out.config
            /\ wlast' = [op |-> "integratedAppImagesDestination",
                         args |-> <<>>, rv |-> out.rv]
            /\ UNCHANGED <<fsVars, permVars, timeVars>>

\* the user deletes the config file
EnvDeleteConfig ==
    /\ config # None
    /\ config' = None
    /\ wlast' = [op |-> "env", args |-> <<>>, rv |-> <<>>]
    /\ UNCHANGED <<fsVars, permVars, timeVars>>

InitConfig == FsStart /\ PermStart /\ TimeStart /\ CfgStart

NextConfig ==
    \/ createConfigFile
    \/ integratedAppImagesDestination
    \/ EnvDeleteConfig

SpecConfig == InitConfig /\ [][NextConfig]_vars

\* C11: integratedAppImagesDestination returns the default directory when
\* the config file does not exist or has no AppImageLauncher/destination
\* key; otherwise the configured destination, with a leading "~" replaced
\* by the home directory and any other value unchanged.
C11_DefaultOrExpandedDestination ==
    \A syncOk \in BOOLEAN :
        LET out == IntegratedAppImagesDestination(config, syncOk)
        IN  IF config = None \/ ReadSettings(QStr(config))[DestinationKey] = None
            THEN out.rv = DefaultDestination
            ELSE LET configured == Get(ReadSettings(Get(config))[DestinationKey])
                 IN  out.rv = IF configured # <<>> /\ configured[1] = "~"
                              THEN Home \o SubSeq(configured, 2, Len(configured))
                              ELSE configured

\* a config file with destination ~/A has been read and the call has
\* returned the directory A inside the home directory
C11_Witness ==
    /\ wlast.op = "integratedAppImagesDestination"
    /\ wlast.rv = Home \o <<"/", "A">>
    /\ config # None

\* a line that is commented out and names the key
CommentedOut(line, key) == StartsWith(line, <<"#">>) /\ Contains(line, key)

\* a line that is the active key with the value
ActiveKey(line, key, value) ==
    LET parsed == ParseLine(line)
    IN  parsed.kind = "key" /\ parsed.key = key /\ parsed.value = value

IntOptionAsGiven(line, key, option) ==
    IF option < 0 THEN CommentedOut(line, key)
    ELSE ActiveKey(line, key, IF option = 0 THEN FalseText ELSE TrueText)

\* C14: the file createConfigFile writes starts with the section and holds
\* exactly three following lines, ask_to_move, destination, enable_daemon
\* in this order: an integer option is active with false for 0 and true for
\* a positive value and commented out for a negative one; destination is
\* active with the given text when non-empty and commented out when empty.
\* Read back, the file has a key exactly for the options that were given.
C14_ThreeLinesAndKeysAsGiven ==
    (wlast.op = "createConfigFile" /\ wlast.args.openOk) =>
        LET given == wlast.args
            text == Get(config)
            lines == SplitLines(text)
            back == ReadSettings(text)
        IN  /\ StartsWith(text, SectionLine)
            /\ Len(lines) = 4
            /\ IntOptionAsGiven(lines[2], AskToMoveKey, given.askToMove)
            /\ IF given.destination = <<>>
               THEN CommentedOut(lines[3], DestinationKey)
               ELSE lines[3] = DestinationKey \o <<" ", "=", " ">> \o given.destination
            /\ IntOptionAsGiven(lines[4], EnableDaemonKey, given.enableDaemon)
            /\ (back[AskToMoveKey] # None) = (given.askToMove >= 0)
            /\ (back[DestinationKey] # None) = (given.destination # <<>>)
            /\ (back[EnableDaemonKey] # None) = (given.enableDaemon >= 0)

(***************************************************************************)
(* Building the target path on its own: any bundle file name               *)
(***************************************************************************)
\* the directories bundles lie in and the names they have
BundleDirs == {<<"/", "a">>, <<"/", "_", "d">>}

BundleNames ==
    {<<"a">>, <<"a", ".", "b">>, <<"a", "_", "d">>, <<"a", "_", "d", ".", "b">>,
     <<"a", ".", "b", ".", "c">>, <<".", "a">>, <<"a", ".">>}

BundleFilePaths == {dir \o <<"/">> \o name : dir \in BundleDirs, name \in BundleNames}

InitBuild ==
    /\ FsStart
    /\ PermStart
    /\ TimeStart
    /\ config \in {None} \cup {Some(ConfigText(0 - 1, d, 0 - 1)) :
                                 d \in {<<"~", "/", "A">>, <<"/", "A">>}}
    /\ wlast = NoHelperCall

\* QString buildPathToIntegratedAppImage(const QString& pathToAppImage)
buildPathToIntegratedAppImage ==
    \E pathToAppImage \in BundleFilePaths, appImage \in AppImages, syncOk \in BOOLEAN :
        LET destination == IntegratedAppImagesDestination(config, syncOk)
        IN  /\ config' = destination.config
            /\ wlast' = [op |-> "buildPathToIntegratedAppImage",
                         args |-> [pathToAppImage |-> pathToAppImage, appImage |-> appImage],
                         rv |-> BuildPath(pathToAppImage, getAppImageDigestMd5(appImage),
                                          destination.rv)]
            /\ UNCHANGED <<fsVars, permVars, timeVars>>

NextBuild == buildPathToIntegratedAppImage

SpecBuild == InitBuild /\ [][NextBuild]_vars

\* C12: buildPathToIntegratedAppImage returns a path directly inside the
\* integration destination; with a digest available the returned base name
\* contains "_<digest>" (appended to the original base name unless the
\* original file name already contains it) and the original last suffix
\* follows; without a digest the file name is the original file name.
C12_ContentAwareNameInsideDestination ==
    wlast.op = "buildPathToIntegratedAppImage" =>
        LET original == wlast.args.pathToAppImage
            digest == getAppImageDigestMd5(wlast.args.appImage)
            digestSuffix == <<"_">> \o digest
        IN  /\ DirName(wlast.rv) = IntegratedAppImagesDestination(config, TRUE).rv
            /\ FileName(wlast.rv) # <<>>
            /\ IF digest # <<>>
               THEN /\ Contains(CompleteBaseName(wlast.rv), digestSuffix)
                    /\ CompleteBaseName(wlast.rv) =
                           IF Contains(FileName(original), digestSuffix)
                           THEN CompleteBaseName(original)
                           ELSE CompleteBaseName(original) \o digestSuffix
                    /\ Suffix(wlast.rv) = Suffix(original)
               ELSE FileName(wlast.rv) = FileName(original)

=============================================================================
